---- MODULE Spec2Model ----
(***************************************************************************)
(* AlertResponder: the report compiler (functions/compiler, lib/report.go) *)
(* and the alert receptor (the second half of compiler.go).                *)
(*                                                                         *)
(* Go values are modelled as follows.  A struct is a record with the       *)
(* struct's field names.  A slice is a sequence (nil and empty are both    *)
(* << >>).  A map is a function whose DOMAIN is the set of keys.  A        *)
(* pointer is a sequence of length at most one: << >> is nil, <<v>> is &v. *)
(***************************************************************************)
EXTENDS Integers, Sequences, FiniteSets, TLC

VARIABLES
    reportData,   \* the REPORT_DATA table: ReportComponent rows in query order
    request,      \* the lib.Report handed to the compiler's HandleRequest
    compiled,     \* what the compiler's HandleRequest returned
    fault,        \* what failed in the compile invocation: "" | "params" | "query"
    pagesFetched, \* the compile invocation's local `pages`, once fetched
    cpc,          \* position of the compile invocation: "idle" | "merge" | "done"
    submits,      \* per report, the calls of Submit that returned nil
    alertMap,     \* the ALERT_MAP table: (key, rule) -> entry
    nextID,       \* how many uuids NewReportID has drawn
    rcp,          \* the receptor invocations: position and locals of each
    effects       \* per receptor invocation, the calls it made, in order

cvars == <<reportData, request, compiled, fault, pagesFetched, cpc, submits>>

rvars == <<alertMap, nextID, rcp, effects>>

vars == <<reportData, request, compiled, fault, pagesFetched, cpc, submits,
          alertMap, nextID, rcp, effects>>

(***************************************************************************)
(* Bounds of the model.                                                    *)
(***************************************************************************)
\* the table holds at most this many fragments
MaxFragments == 3
\* the fragments of the table carry at most this many host entries in total
MaxHosts == 3
\* Submit is called at most this many times while a compilation may run
MaxSubmits == 4
\* receptor invocations that may run concurrently
NumInvocations == 2
\* the events delivered carry at most this many Kinesis records in total
MaxRecords == 3

(***************************************************************************)
(* Generic helpers.                                                        *)
(***************************************************************************)
Nil == << >>

Ptr(v) == <<v>>

Range(s) == {s[i] : i \in DOMAIN s}

SeqsUpTo(S, n) == UNION {[1..k -> S] : k \in 0..n}

RECURSIVE SetToSeq(_)
SetToSeq(S) ==
    IF S = {} THEN << >>
    ELSE LET x == CHOOSE y \in S : TRUE IN <<x>> \o SetToSeq(S \ {x})

EmptyMap == << >>

\* h, _ := m[k]  (the zero value when k is absent)
MapGet(m, k, zero) == IF k \in DOMAIN m THEN m[k] ELSE zero

\* m[k] = v
MapPut(m, k, v) == [x \in (DOMAIN m) \cup {k} |-> IF x = k THEN v ELSE m[x]]

(***************************************************************************)
(* lib/report.go: the host entries and their Merge methods.                *)
(***************************************************************************)
ZeroRemoteHost ==
    [ID |-> "", IPAddr |-> << >>, Country |-> << >>, ASOwner |-> << >>,
     RelatedMalware |-> << >>, RelatedDomains |-> << >>, RelatedURLs |-> << >>]

ZeroLocalHost ==
    [ID |-> "", UserName |-> << >>, OS |-> << >>, IPAddr |-> << >>,
     Country |-> << >>, ServiceUsage |-> << >>]

\* Merge that assigns the lists of s instead of appending them
RemoteHostMergeAssign(x, s) ==
    [ID             |-> s.ID,
     IPAddr         |-> s.IPAddr,
     Country        |-> s.Country,
     ASOwner        |-> s.ASOwner,
     RelatedMalware |-> s.RelatedMalware,
     RelatedDomains |-> s.RelatedDomains,
     RelatedURLs    |-> s.RelatedURLs]

\* x \o s without the values of s that x already holds
AppendNew(x, s) == x \o SelectSeq(s, LAMBDA e : \A i \in DOMAIN x : x[i] # e)

\* Merge that appends only the values not yet present (a set union)
RemoteHostMergeUnion(x, s) ==
    [ID             |-> s.ID,
     IPAddr         |-> AppendNew(x.IPAddr, s.IPAddr),
     Country        |-> AppendNew(x.Country, s.Country),
     ASOwner        |-> AppendNew(x.ASOwner, s.ASOwner),
     RelatedMalware |-> AppendNew(x.RelatedMalware, s.RelatedMalware),
     RelatedDomains |-> AppendNew(x.RelatedDomains, s.RelatedDomains),
     RelatedURLs    |-> AppendNew(x.RelatedURLs, s.RelatedURLs)]

\* func (x *ReportRemoteHost) Merge(s ReportRemoteHost)
RemoteHostMerge(x, s) ==
    [ID             |-> s.ID,
     IPAddr         |-> x.IPAddr \o s.IPAddr,
     Country        |-> x.Country \o s.Country,
     ASOwner        |-> x.ASOwner \o s.ASOwner,
     RelatedMalware |-> x.RelatedMalware \o s.RelatedMalware,
     RelatedDomains |-> x.RelatedDomains \o s.RelatedDomains,
     RelatedURLs    |-> x.RelatedURLs \o s.RelatedURLs]

\* Merge with UserName and Country exchanged on the right-hand sides
LocalHostMergeSwapped(x, s) ==
    [ID           |-> s.ID,
     UserName     |-> x.UserName \o s.Country,
     OS           |-> x.OS \o s.OS,
     IPAddr       |-> x.IPAddr \o s.IPAddr,
     Country      |-> x.Country \o s.UserName,
     ServiceUsage |-> x.ServiceUsage \o s.ServiceUsage]

\* func (x *ReportLocalHost) Merge(s ReportLocalHost): UserName receives
\* s.Country (report.go:106), as the source has it.
LocalHostMerge(x, s) ==
    [ID           |-> s.ID,
     UserName     |-> x.UserName \o s.Country,
     OS           |-> x.OS \o s.OS,
     IPAddr       |-> x.IPAddr \o s.IPAddr,
     Country      |-> x.Country \o s.Country,
     ServiceUsage |-> x.ServiceUsage \o s.ServiceUsage]

(***************************************************************************)
(* lib/report.go: pages, components and their (de)serialisation.           *)
(* Only the host lists of a page are read by the modelled code.            *)
(***************************************************************************)
\* NewReportPage(): the zero page
NewReportPage == [RemoteHost |-> << >>, LocalHost |-> << >>]

\* Data of length 0 (a component whose SetPage was never called)
EmptyData == [kind |-> "empty"]

\* bytes that json.Unmarshal rejects for a ReportPage
GarbageData == [kind |-> "garbage"]

\* json.Marshal(&page): the bytes of the page's JSON text
Marshal(page) == [kind |-> "json", page |-> page]

\* func NewReportComponent(reportID ReportID) *ReportComponent; dataID is the
\* uuid it draws.  Data keeps its zero value.
NewReportComponent(reportID, dataID) ==
    [ReportID |-> reportID, DataID |-> dataID, Data |-> EmptyData]

\* func (x *ReportComponent) SetPage(page ReportPage)
SetPage(x, page) == [x EXCEPT !.Data = Marshal(page)]

\* table.Put(x).Run(): the row with x's key (report_id, data_id) is replaced,
\* a row with a new key is added
TablePut(table, x) ==
    IF \E i \in DOMAIN table :
          table[i].ReportID = x.ReportID /\ table[i].DataID = x.DataID
    THEN [i \in DOMAIN table |->
            IF table[i].ReportID = x.ReportID /\ table[i].DataID = x.DataID
            THEN x ELSE table[i]]
    ELSE Append(table, x)

\* func (x *ReportComponent) Page() *ReportPage
Page(x) ==
    IF x.Data.kind = "empty" THEN Nil
    ELSE IF x.Data.kind = "json" THEN Ptr(x.Data.page)
    ELSE Nil

RECURSIVE PagesOf(_)
PagesOf(dataList) ==
    IF dataList = << >> THEN << >>
    ELSE <<Page(Head(dataList))>> \o PagesOf(Tail(dataList))

\* table.Get("report_id", reportID).All(&dataList)
QueryAll(table, reportID) == SelectSeq(table, LAMBDA d : d.ReportID = reportID)

\* a fetch that reports a query without rows as an error
FetchReportPagesNotFound(table, reportID, storeErr) ==
    IF storeErr \/ QueryAll(table, reportID) = << >>
    THEN [err |-> TRUE, pages |-> << >>]
    ELSE [err |-> FALSE, pages |-> PagesOf(QueryAll(table, reportID))]

\* func FetchReportPages(tableName, region, reportID) ([]*ReportPage, error);
\* storeErr is the outcome of the table query.
FetchReportPages(table, reportID, storeErr) ==
    IF storeErr
    THEN [err |-> TRUE, pages |-> << >>]
    ELSE [err |-> FALSE, pages |-> PagesOf(QueryAll(table, reportID))]

(***************************************************************************)
(* lib/report.go: Report, ReportContent, NewReport.                        *)
(***************************************************************************)
ZeroContent ==
    [RemoteHosts |-> EmptyMap, LocalHosts |-> EmptyMap, SubjectUsers |-> EmptyMap]

\* func NewReport(reportID ReportID, alert Alert) Report: only ID and Alert
\* are set, every other field keeps Go's zero value.
NewReport(reportID, alert) ==
    [ID |-> reportID, Alert |-> alert, Content |-> ZeroContent,
     Result |-> Nil, Status |-> ""]

(***************************************************************************)
(* functions/compiler: HandleRequest.                                      *)
(***************************************************************************)
\* a HandleRequest that merges into the mappings the report came with
ResetContentKeep(c) == c

\* c.RemoteHosts = map[string]lib.ReportRemoteHost{}; c.LocalHosts = ...{}
ResetContent(c) == [c EXCEPT !.RemoteHosts = EmptyMap, !.LocalHosts = EmptyMap]

\* for _, r := range page.RemoteHost { h, _ := m[r.ID]; h.Merge(r); m[r.ID] = h }
RECURSIVE MergeRemoteHosts(_, _)
MergeRemoteHosts(m, hosts) ==
    IF hosts = << >> THEN m
    ELSE LET r == Head(hosts)
             h == RemoteHostMerge(MapGet(m, r.ID, ZeroRemoteHost), r)
         IN  MergeRemoteHosts(MapPut(m, r.ID, h), Tail(hosts))

\* for _, r := range page.LocalHost { h, _ := m[r.ID]; h.Merge(r); m[r.ID] = h }
RECURSIVE MergeLocalHosts(_, _)
MergeLocalHosts(m, hosts) ==
    IF hosts = << >> THEN m
    ELSE LET r == Head(hosts)
             h == LocalHostMerge(MapGet(m, r.ID, ZeroLocalHost), r)
         IN  MergeLocalHosts(MapPut(m, r.ID, h), Tail(hosts))

\* the body of `for _, page := range pages` for one (non-nil) page
MergePage(c, page) ==
    [c EXCEPT !.RemoteHosts = MergeRemoteHosts(@, page.RemoteHost),
              !.LocalHosts  = MergeLocalHosts(@, page.LocalHost)]

\* `for _, page := range pages`: page.RemoteHost on a nil *ReportPage is a
\* nil pointer dereference, which panics and ends the invocation.
RECURSIVE MergePages(_, _)
MergePages(c, pages) ==
    IF pages = << >> THEN [panic |-> FALSE, content |-> c]
    ELSE IF Head(pages) = Nil THEN [panic |-> TRUE, content |-> c]
    ELSE MergePages(MergePage(c, Head(pages)[1]), Tail(pages))

\* Compile(pages): the merge of HandleRequest run on a list of fetched pages
Compile(pages) == MergePages(ResetContent(ZeroContent), pages)

\* a HandleRequest that returns a report built anew around the merged Content
CompileReportFresh(report, paramsErr, fetched) ==
    IF paramsErr \/ fetched.err THEN [kind |-> "error", report |-> Nil]
    ELSE LET m == MergePages(ResetContent(ZeroContent), fetched.pages)
         IN  IF m.panic THEN [kind |-> "panic", report |-> Nil]
             ELSE [kind |-> "ok",
                   report |-> Ptr([NewReport(report.ID, report.Alert)
                                     EXCEPT !.Content = m.content])]

\* HandleRequest: what the invocation returns.
\*   kind = "error": (nil, err), from buildParameters or FetchReportPages
\*   kind = "panic": the invocation crashed
\*   kind = "ok":    (&report, nil)
CompileReport(report, paramsErr, fetched) ==
    IF paramsErr \/ fetched.err THEN [kind |-> "error", report |-> Nil]
    ELSE LET m == MergePages(ResetContent(report.Content), fetched.pages)
         IN  IF m.panic THEN [kind |-> "panic", report |-> Nil]
             ELSE [kind |-> "ok",
                   report |-> Ptr([report EXCEPT !.Content = m.content])]

(***************************************************************************)
(* Inputs of the compile path: host entries, pages, tables, reports.       *)
(***************************************************************************)
\* Remote hosts observed by enrichment tasks.  The first two share an ID
\* and both carry an IPAddr; values of different fields are distinct.
RemoteHostSamples ==
    { [ZeroRemoteHost EXCEPT !.ID = "8.8.8.8", !.IPAddr = <<"8.8.8.8">>],
      [ID |-> "8.8.8.8", IPAddr |-> <<"8.8.4.4">>, Country |-> <<"US">>,
       ASOwner |-> <<"GOOGLE">>, RelatedMalware |-> <<"mw-1">>,
       RelatedDomains |-> <<"dns.google">>, RelatedURLs |-> <<"https://dns.google/">>],
      [ID |-> "1.1.1.1", IPAddr |-> <<"1.1.1.1", "1.0.0.1">>, Country |-> <<"AU">>,
       ASOwner |-> <<"CLOUDFLARENET">>, RelatedMalware |-> << >>,
       RelatedDomains |-> <<"one.one">>, RelatedURLs |-> << >>] }

LocalHostSamples ==
    { [ID |-> "pc-1", UserName |-> <<"alice">>, OS |-> <<"linux">>,
       IPAddr |-> <<"10.0.0.5">>, Country |-> <<"JP">>, ServiceUsage |-> <<"s3:GetObject">>],
      [ID |-> "pc-2", UserName |-> <<"bob">>, OS |-> <<"windows">>,
       IPAddr |-> <<"10.0.0.6">>, Country |-> << >>, ServiceUsage |-> << >>] }

HostCount(page) == Len(page.RemoteHost) + Len(page.LocalHost)

\* every page with at most h host entries
PageSamples(h) ==
    { p \in { [RemoteHost |-> rl, LocalHost |-> ll] :
                rl \in SeqsUpTo(RemoteHostSamples, h),
                ll \in SeqsUpTo(LocalHostSamples, h) } : HostCount(p) <= h }

\* the report being compiled, and another report with fragments of its own
CompiledID == "X"
OtherID == "Y"

\* host entries a fragment's payload carries
DataHosts(data) == IF data.kind = "json" THEN HostCount(data.page) ELSE 0

\* the pages a fragment may carry
Pages == PageSamples(MaxHosts)

\* the one page submitted for the other report: a remote host that pages of
\* the compiled report observe too
OtherPage ==
    [NewReportPage EXCEPT !.RemoteHost =
        <<[ZeroRemoteHost EXCEPT !.ID = "8.8.8.8", !.IPAddr = <<"8.8.8.8">>]>>]

\* host entries a table's rows carry in total
RECURSIVE TableHosts(_)
TableHosts(table) ==
    IF table = << >> THEN 0
    ELSE DataHosts(Head(table).Data) + TableHosts(Tail(table))

\* the uuid of a new component: different from every DataID in the table
FreshDataID(table) == Len(table) + 1

AlertSample == [Key |-> "10.0.0.1", Rule |-> "R1"]

\* the Content an incoming report may carry: none, or an earlier compilation
IncomingContents ==
    { ZeroContent,
      [ZeroContent EXCEPT
         !.RemoteHosts = MapPut(EmptyMap, "9.9.9.9",
            [ZeroRemoteHost EXCEPT !.ID = "9.9.9.9", !.IPAddr = <<"9.9.9.9">>]),
         !.LocalHosts = MapPut(EmptyMap, "pc-9",
            [ZeroLocalHost EXCEPT !.ID = "pc-9", !.OS = <<"macos">>]),
         !.SubjectUsers = MapPut(EmptyMap, "carol",
            [URL |-> "https://example.com/carol", Source |-> "idp"])] }

\* the reports handed to the compiler: the report as intake constructed it,
\* or a report that went through the pipeline before (it carries Content, a
\* Result and the status of a published report)
IncomingReports ==
    { IF c = ZeroContent
      THEN NewReport(CompiledID, AlertSample)
      ELSE [NewReport(CompiledID, AlertSample) EXCEPT
               !.Content = c,
               !.Result = Ptr([Severity |-> "high"]),
               !.Status = "Published"] : c \in IncomingContents }

NoResult == [kind |-> "none", report |-> Nil]

(***************************************************************************)
(* The receptor: events, alerts, the alert map.                            *)
(***************************************************************************)
Invocations == 1..NumInvocations

\* lib.Alert, the fields the receptor reads: two alerts that share the key
\* and differ in the rule
Alerts == { [Key |-> "10.0.0.1", Rule |-> "R1"],
            [Key |-> "10.0.0.1", Rule |-> "R2"] }

\* record.Kinesis.Data: the JSON text of an alert, or bytes that are not
KinesisRecords == { [kind |-> "json", alert |-> a] : a \in Alerts }
                    \cup { [kind |-> "garbage"] }

Events == SeqsUpTo(KinesisRecords, MaxRecords)

NoError == ""

\* a ParseEvent that passes over a record it cannot decode
RECURSIVE ParseRecordsSkip(_, _)
ParseRecordsSkip(records, alerts) ==
    IF records = << >> THEN [alerts |-> alerts, err |-> NoError]
    ELSE IF Head(records).kind # "json"
         THEN ParseRecordsSkip(Tail(records), alerts)
         ELSE ParseRecordsSkip(Tail(records), Append(alerts, Head(records).alert))

\* func ParseEvent(event events.KinesisEvent) ([]lib.Alert, error)
RECURSIVE ParseRecords(_, _)
ParseRecords(records, alerts) ==
    IF records = << >> THEN [alerts |-> alerts, err |-> NoError]
    ELSE IF Head(records).kind # "json"
         THEN [alerts |-> alerts, err |-> "Invalid json format in KinesisRecord"]
         ELSE ParseRecords(Tail(records), Append(alerts, Head(records).alert))

ParseEvent(event) == ParseRecords(event, << >>)

\* func NewReportID() ReportID: the n-th uuid drawn; uuids do not repeat
NewReportID(n) == n + 1

\* the key of an alert map entry
AlertID(alertKey, ruleName) == <<alertKey, ruleName>>

\* AlertMap.Lookup(alertKey, ruleName): a point read; nil when absent
AlertMapLookup(table, alertKey, ruleName) ==
    IF AlertID(alertKey, ruleName) \in DOMAIN table
    THEN Ptr(table[AlertID(alertKey, ruleName)].ReportID)
    ELSE Nil

\* an unconditional write: the entry replaces whatever the key held
PutAlways(table, k, entry) == [ok |-> TRUE, table |-> MapPut(table, k, entry)]

\* the store's conditional write: succeeds only if no entry has the key
PutIfAbsent(table, k, entry) ==
    IF k \in DOMAIN table
    THEN [ok |-> FALSE, table |-> table]
    ELSE [ok |-> TRUE, table |-> MapPut(table, k, entry)]

\* AlertMap.Create(alertKey, ruleName), its write: a fresh ReportID is
\* written on condition that the pair has no entry
AlertMapCreate(table, alertKey, ruleName, reportID) ==
    PutIfAbsent(table, AlertID(alertKey, ruleName), [ReportID |-> reportID])

(***************************************************************************)
(* The receptor: Handler and HandleRequest.                                *)
(***************************************************************************)
\* an invocation that has not received its event
IdleInvocation ==
    [pc |-> "idle", event |-> << >>, alerts |-> << >>, i |-> 0,
     report |-> Nil, reports |-> << >>, resp |-> << >>,
     handler |-> [ids |-> << >>, err |-> NoError],
     ret |-> [ReportIDs |-> << >>, err |-> NoError]]

\* HandleRequest without `resp.ReportIDs = ids`
HandleRequestReturnZero(ids, err) == [ReportIDs |-> << >>, err |-> err]

\* HandleRequest after Handler returned (ids, err):
\*   if err != nil { return resp, err };  resp.ReportIDs = ids; return resp, nil
\* where resp is still the zero ReceptorResponse on the error path.
HandleRequestReturn(ids, err) ==
    IF err # NoError
    THEN [ReportIDs |-> << >>, err |-> err]
    ELSE [ReportIDs |-> ids, err |-> NoError]

\* Handler returns (resp, err) and HandleRequest returns in turn
HandlerReturn(l, err) ==
    [l EXCEPT !.pc = "done",
              !.handler = [ids |-> l.resp, err |-> err],
              !.ret = HandleRequestReturn(l.resp, err)]

\* `for _, alert := range alerts`: the next alert, or the return after the last
HandlerLoop(l) ==
    IF l.i = Len(l.alerts)
    THEN HandlerReturn(l, NoError)
    ELSE [l EXCEPT !.i = @ + 1, !.pc = "lookup", !.report = Nil]

\* HandleRequest up to the call of Handler: buildConfig, ParseEvent
HandleRequestStart(l, event, cfgErr) ==
    IF cfgErr
    THEN [l EXCEPT !.pc = "done", !.event = event,
                   !.ret = [ReportIDs |-> << >>, err |-> "config"]]
    ELSE LET parsed == ParseEvent(event)
         IN  IF parsed.err # NoError
             THEN [l EXCEPT !.pc = "done", !.event = event,
                            !.ret = [ReportIDs |-> << >>, err |-> parsed.err]]
             ELSE HandlerLoop([l EXCEPT !.event = event, !.alerts = parsed.alerts])

\* alertToReport's end: report := lib.NewReport(*reportID, alert); return
AlertToReportReturn(l, reportID) ==
    LET report == NewReport(reportID, l.alerts[l.i])
    IN  [l EXCEPT !.report = Ptr(report), !.reports = Append(@, report),
                  !.pc = "dispatch"]

\* what an invocation records of a call it made for its i-th alert
Call(op, l, ok) == [op |-> op, i |-> l.i, ok |-> ok]


(***************************************************************************)
(* The compile path as a state machine.                                    *)
(***************************************************************************)
\* no fragment stored, no compile invocation yet
CompilerAtRest ==
    /\ reportData = << >>
    /\ request = Nil
    /\ compiled = NoResult
    /\ fault = ""
    /\ pagesFetched = << >>
    /\ cpc = "idle"
    /\ submits = [id \in {CompiledID, OtherID} |-> 0]

\* no alert map entry, no receptor invocation yet
ReceptorAtRest ==
    /\ alertMap = EmptyMap
    /\ nextID = 0
    /\ rcp = [v \in Invocations |-> IdleInvocation]
    /\ effects = [v \in Invocations |-> << >>]

CompileInit == CompilerAtRest /\ ReceptorAtRest

\* Room for one more fragment with n host entries.
HasRoom(n) ==
    /\ Len(reportData) < MaxFragments
    /\ TableHosts(reportData) + n <= MaxHosts

\* An enrichment task submits a fragment: NewReportComponent, SetPage, Submit.
\* The query returns rows in the order of their uuids, which is any order;
\* appending rows drawn from the same set produces every order.
Submit ==
    /\ cpc = "idle"
    /\ \E reportID \in {CompiledID, OtherID}, page \in Pages :
          /\ HasRoom(HostCount(page))
          /\ reportID = OtherID => page = OtherPage
          /\ reportData' = TablePut(reportData,
                SetPage(NewReportComponent(reportID, FreshDataID(reportData)), page))
          /\ submits' = [submits EXCEPT ![reportID] = @ + 1]
    /\ UNCHANGED <<request, compiled, fault, pagesFetched, cpc>>
    /\ UNCHANGED rvars

\* A component is submitted without SetPage: its Data has length 0.
SubmitEmpty ==
    /\ cpc = "idle"
    /\ HasRoom(0)
    /\ reportData' = TablePut(reportData,
          NewReportComponent(CompiledID, FreshDataID(reportData)))
    /\ submits' = [submits EXCEPT ![CompiledID] = @ + 1]
    /\ UNCHANGED <<request, compiled, fault, pagesFetched, cpc>>
    /\ UNCHANGED rvars

\* The table holds a row whose data is not the JSON text of a ReportPage
\* (the case Page() logs as "Invalid report page data foramt").
PutGarbage ==
    /\ cpc = "idle"
    /\ HasRoom(0)
    /\ reportData' = TablePut(reportData,
          [NewReportComponent(CompiledID, FreshDataID(reportData))
             EXCEPT !.Data = GarbageData])
    /\ submits' = [submits EXCEPT ![CompiledID] = @ + 1]
    /\ UNCHANGED <<request, compiled, fault, pagesFetched, cpc>>
    /\ UNCHANGED rvars

\* the compiler's HandleRequest(ctx, report) up to the fetch: buildParameters,
\* then FetchReportPages, whose query is one read of the table (it is made
\* only once buildParameters succeeded).  On an error the invocation returns.
CompilerHandleRequest ==
    /\ cpc = "idle"
    /\ \E report \in IncomingReports, failed \in {"", "params", "query"} :
          LET fetched == FetchReportPages(reportData, report.ID, failed = "query")
              returns == failed = "params" \/ fetched.err
          IN  /\ request' = Ptr(report)
              /\ fault' = failed
              /\ pagesFetched' = IF returns THEN << >> ELSE fetched.pages
              /\ compiled' = IF returns
                             THEN CompileReport(report, failed = "params", fetched)
                             ELSE compiled
              /\ cpc' = IF returns THEN "done" ELSE "merge"
    /\ UNCHANGED <<reportData, submits>>
    /\ UNCHANGED rvars

\* a merge that queries the table again instead of reading `pages`
CompilerMergeRereading ==
    /\ cpc = "merge"
    /\ compiled' = CompileReport(request[1], FALSE,
                        FetchReportPages(reportData, request[1].ID, FALSE))
    /\ cpc' = "done"
    /\ UNCHANGED <<reportData, request, fault, pagesFetched, submits>>
    /\ UNCHANGED rvars

\* HandleRequest from the reset of the two mappings to its return: the merge
\* reads the local `pages` only
CompilerMerge ==
    /\ cpc = "merge"
    /\ compiled' = CompileReport(request[1], FALSE, [err |-> FALSE, pages |-> pagesFetched])
    /\ cpc' = "done"
    /\ UNCHANGED <<reportData, request, fault, pagesFetched, submits>>
    /\ UNCHANGED rvars

CompileNext ==
    Submit \/ SubmitEmpty \/ PutGarbage \/ CompilerHandleRequest \/ CompilerMerge

CompileSpec == CompileInit /\ [][CompileNext]_vars

(***************************************************************************)
(* The fragment store under concurrency: enrichment tasks submit, and      *)
(* submit again, before, while and after a compile invocation runs.        *)
(***************************************************************************)
\* the pages submitted here: those with at most one host entry
ConcurrentPages == { p \in Pages : HostCount(p) <= 1 }

SubmitCalls == submits[CompiledID] + submits[OtherID]

\* A task submits a fragment at any moment: NewReportComponent, SetPage,
\* Submit.
SubmitConcurrent ==
    /\ Len(reportData) < MaxFragments
    /\ SubmitCalls < MaxSubmits
    /\ \E reportID \in {CompiledID, OtherID}, page \in ConcurrentPages :
          /\ reportID = OtherID => page = OtherPage
          /\ reportData' = TablePut(reportData,
                SetPage(NewReportComponent(reportID, FreshDataID(reportData)), page))
          /\ submits' = [submits EXCEPT ![reportID] = @ + 1]
    /\ UNCHANGED <<request, compiled, fault, pagesFetched, cpc>>
    /\ UNCHANGED rvars

\* A task calls Submit once more on a *ReportComponent it has submitted, as
\* it is or after another SetPage.  The DataID is the one NewReportComponent
\* drew; Submit draws none.
Resubmit ==
    /\ SubmitCalls < MaxSubmits
    /\ \E i \in DOMAIN reportData :
          LET x == reportData[i] IN
          /\ \E y \in {x} \cup { SetPage(x, page) : page \in ConcurrentPages } :
                reportData' = TablePut(reportData, y)
          /\ submits' = [submits EXCEPT ![x.ReportID] = @ + 1]
    /\ UNCHANGED <<request, compiled, fault, pagesFetched, cpc>>
    /\ UNCHANGED rvars

StoreNext ==
    SubmitConcurrent \/ Resubmit \/ CompilerHandleRequest \/ CompilerMerge

StoreSpec == CompileInit /\ [][StoreNext]_vars

(***************************************************************************)
(* The receptor as a state machine.  Invocations run concurrently; each    *)
(* call to a store or a service is one step.                               *)
(***************************************************************************)
Init == CompilerAtRest /\ ReceptorAtRest

\* records of the events delivered so far
RECURSIVE SumLen(_)
SumLen(S) ==
    IF S = {} THEN 0
    ELSE LET v == CHOOSE x \in S : TRUE IN Len(rcp[v].event) + SumLen(S \ {v})

RecordsDelivered == SumLen(Invocations)

\* HandleRequest(ctx, event) starts: buildConfig, ParseEvent, Handler's entry
Receive(v) ==
    /\ rcp[v].pc = "idle"
    /\ \E event \in Events, cfgErr \in BOOLEAN :
          /\ Len(event) + RecordsDelivered <= MaxRecords
          /\ rcp' = [rcp EXCEPT ![v] = HandleRequestStart(@, event, cfgErr)]
    /\ UNCHANGED <<alertMap, nextID, effects>>
    /\ UNCHANGED cvars

\* an alertToReport that calls Create whatever Lookup returned
LookupThenCreate(v) ==
    LET l == rcp[v] IN
    /\ l.pc = "lookup"
    /\ \E storeErr \in BOOLEAN :
          /\ rcp' = [rcp EXCEPT ![v] =
                IF storeErr THEN HandlerReturn(l, "lookup")
                ELSE [l EXCEPT !.pc = "create"]]
          /\ effects' = [effects EXCEPT ![v] =
                Append(@, Call("Lookup", l, ~storeErr))]
    /\ UNCHANGED <<alertMap, nextID>>
    /\ UNCHANGED cvars

\* alertToReport: reportID, err := alertMap.Lookup(alert.Key, alert.Rule)
Lookup(v) ==
    LET l == rcp[v] IN
    /\ l.pc = "lookup"
    /\ \E storeErr \in BOOLEAN :
          LET alert == l.alerts[l.i]
              reportID == AlertMapLookup(alertMap, alert.Key, alert.Rule)
          IN  /\ rcp' = [rcp EXCEPT ![v] =
                    IF storeErr THEN HandlerReturn(l, "lookup")
                    ELSE IF reportID = Nil THEN [l EXCEPT !.pc = "create"]
                    ELSE AlertToReportReturn(l, reportID[1])]
              /\ effects' = [effects EXCEPT ![v] =
                    Append(@, Call("Lookup", l, ~storeErr))]
    /\ UNCHANGED <<alertMap, nextID>>
    /\ UNCHANGED cvars

\* alertToReport: reportID, err = alertMap.Create(alert.Key, alert.Rule),
\* up to Create's conditional write
Create(v) ==
    LET l == rcp[v] IN
    /\ l.pc = "create"
    /\ \E storeErr \in BOOLEAN :
          LET alert == l.alerts[l.i]
              reportID == NewReportID(nextID)
              put == AlertMapCreate(alertMap, alert.Key, alert.Rule, reportID)
          IN  /\ nextID' = nextID + 1
              /\ alertMap' = IF storeErr THEN alertMap ELSE put.table
              /\ rcp' = [rcp EXCEPT ![v] =
                    IF storeErr
                    THEN HandlerReturn(l, "Failt to create a new alert map")
                    ELSE IF put.ok THEN AlertToReportReturn(l, reportID)
                    ELSE [l EXCEPT !.pc = "reread"]]
              /\ effects' = [effects EXCEPT ![v] =
                    Append(@, Call("Create", l, ~storeErr /\ put.ok))]
    /\ UNCHANGED cvars

\* Create lost the race: it reads the entry again and returns the winner's
\* ReportID, discarding its own
CreateReread(v) ==
    LET l == rcp[v] IN
    /\ l.pc = "reread"
    /\ \E storeErr \in BOOLEAN :
          LET alert == l.alerts[l.i]
              reportID == AlertMapLookup(alertMap, alert.Key, alert.Rule)
          IN  /\ rcp' = [rcp EXCEPT ![v] =
                    IF storeErr \/ reportID = Nil
                    THEN HandlerReturn(l, "Failt to create a new alert map")
                    ELSE AlertToReportReturn(l, reportID[1])]
              /\ effects' = [effects EXCEPT ![v] =
                    Append(@, Call("Reread", l, ~storeErr))]
    /\ UNCHANGED <<alertMap, nextID>>
    /\ UNCHANGED cvars

\* a Handler that does not check the error of the dispatch workflow's start
DispatchUnchecked(v) ==
    LET l == rcp[v] IN
    /\ l.pc = "dispatch"
    /\ \E ok \in BOOLEAN :
          /\ rcp' = [rcp EXCEPT ![v] = [l EXCEPT !.pc = "review"]]
          /\ effects' = [effects EXCEPT ![v] = Append(@, Call("Dispatch", l, ok))]
    /\ UNCHANGED <<alertMap, nextID>>
    /\ UNCHANGED cvars

\* Handler: lib.ExecDelayMachine(os.Getenv("DISPATCH_MACHINE"), ...)
Dispatch(v) ==
    LET l == rcp[v] IN
    /\ l.pc = "dispatch"
    /\ \E ok \in BOOLEAN :
          /\ rcp' = [rcp EXCEPT ![v] =
                IF ok THEN [l EXCEPT !.pc = "review"]
                ELSE HandlerReturn(l, "Fail to start DispatchMachine")]
          /\ effects' = [effects EXCEPT ![v] = Append(@, Call("Dispatch", l, ok))]
    /\ UNCHANGED <<alertMap, nextID>>
    /\ UNCHANGED cvars

\* Handler: lib.ExecDelayMachine(os.Getenv("REVIEW_MACHINE"), ...)
Review(v) ==
    LET l == rcp[v] IN
    /\ l.pc = "review"
    /\ \E ok \in BOOLEAN :
          /\ rcp' = [rcp EXCEPT ![v] =
                IF ok THEN [l EXCEPT !.pc = "publish"]
                ELSE HandlerReturn(l, "Fail to start ReviewMachine")]
          /\ effects' = [effects EXCEPT ![v] = Append(@, Call("Review", l, ok))]
    /\ UNCHANGED <<alertMap, nextID>>
    /\ UNCHANGED cvars

\* Handler: lib.PublishSnsMessage(os.Getenv("REPORT_LINE"), ...), then
\* resp = append(resp, string(report.ID)) and the next round of the loop
Publish(v) ==
    LET l == rcp[v] IN
    /\ l.pc = "publish"
    /\ \E ok \in BOOLEAN :
          /\ rcp' = [rcp EXCEPT ![v] =
                IF ok
                THEN HandlerLoop([l EXCEPT !.resp = Append(@, l.report[1].ID)])
                ELSE HandlerReturn(l, "publish")]
          /\ effects' = [effects EXCEPT ![v] = Append(@, Call("Publish", l, ok))]
    /\ UNCHANGED <<alertMap, nextID>>
    /\ UNCHANGED cvars

Next ==
    \E v \in Invocations :
        \/ Receive(v)
        \/ Lookup(v)
        \/ Create(v)
        \/ CreateReread(v)
        \/ Dispatch(v)
        \/ Review(v)
        \/ Publish(v)

Spec == Init /\ [][Next]_vars

(***************************************************************************)
(* Properties of the receptor (specification Spec).                        *)
(***************************************************************************)
SamePair(a, b) == a.Key = b.Key /\ a.Rule = b.Rule

\* the calls `op` an invocation made for alerts with a's (key, rule)
CallsFor(v, op, a) ==
    { n \in DOMAIN effects[v] :
        /\ effects[v][n].op = op
        /\ SamePair(rcp[v].alerts[effects[v][n].i], a) }

\* C1: any two reports that alertToReport returned for alerts with the same
\* (key, rule), in the same or in different invocations, however the
\* invocations interleave, carry the same ReportID.
CorrelationIdempotence ==
    \A v, w \in Invocations :
        \A n \in DOMAIN rcp[v].reports, m \in DOMAIN rcp[w].reports :
            SamePair(rcp[v].reports[n].Alert, rcp[w].reports[m].Alert)
                => rcp[v].reports[n].ID = rcp[w].reports[m].ID

\* Two invocations resolved the same (key, rule) while racing: both missed
\* in Lookup, one created the entry, the other lost the conditional write
\* and re-read.
RacingInvocationsResolved ==
    \E v, w \in Invocations : \E a \in Alerts :
        /\ v # w
        /\ \E n \in DOMAIN rcp[v].reports : SamePair(rcp[v].reports[n].Alert, a)
        /\ \E m \in DOMAIN rcp[w].reports : SamePair(rcp[w].reports[m].Alert, a)
        /\ \E n \in CallsFor(v, "Create", a) : effects[v][n].ok
        /\ \E m \in CallsFor(w, "Reread", a) : effects[w][m].ok

\* successful writes of an entry for a's (key, rule), over all invocations
RECURSIVE CreatedCount(_, _)
CreatedCount(S, a) ==
    IF S = {} THEN 0
    ELSE LET v == CHOOSE x \in S : TRUE
         IN  Cardinality({ n \in CallsFor(v, "Create", a) : effects[v][n].ok })
               + CreatedCount(S \ {v}, a)

\* a pair has an entry exactly if one Create succeeded for it, and no more
\* than one Create succeeds for a pair
CreatedOnce ==
    \A a \in Alerts :
        /\ CreatedCount(Invocations, a) <= 1
        /\ (AlertID(a.Key, a.Rule) \in DOMAIN alertMap)
              <=> (CreatedCount(Invocations, a) = 1)

\* every entry is still there after a step, with the same ReportID
EntriesKept ==
    \A k \in DOMAIN alertMap : k \in DOMAIN alertMap' /\ alertMap'[k] = alertMap[k]

\* C2: an entry of the alert map, once created, is never removed and never
\* holds another ReportID, and at most one entry is ever written per
\* (key, rule), also when the alert arrives in two concurrent batches.
EntryCreatedOnceAndKept == []CreatedOnce /\ [][EntriesKept]_vars

\* The same alert arrived in two concurrent batches, both invocations called
\* Create for it, and the map holds its entry.
SameAlertCreatedTwice ==
    \E v, w \in Invocations : \E a \in Alerts :
        /\ v # w
        /\ CallsFor(v, "Create", a) # {}
        /\ CallsFor(w, "Create", a) # {}
        /\ AlertID(a.Key, a.Rule) \in DOMAIN alertMap

\* C10: when the i-th alert of a batch fails, nothing is done for a later
\* alert and HandleRequest returns the error together with the ReportIDs of
\* the alerts 1..i-1.
BatchAbortReturnsPartialList ==
    \A v \in Invocations :
        LET l == rcp[v] IN
        (l.pc = "done" /\ l.handler.err # NoError) =>
            /\ \A n \in DOMAIN effects[v] : effects[v][n].i <= l.i
            /\ l.ret.err # NoError
            /\ l.ret.ReportIDs = [j \in 1..(l.i - 1) |-> l.reports[j].ID]

\* the batch ran to its end without an error
BatchSucceeded(v) == rcp[v].pc = "done" /\ rcp[v].ret.err = NoError

\* C11: a batch that is processed without error returns one ReportID per
\* alert, in the order of the alerts: the i-th element is the ID of the
\* report that alertToReport returned for the i-th record's alert.
BatchResponseInAlertOrder ==
    \A v \in Invocations :
        LET l == rcp[v] IN
        BatchSucceeded(v) =>
            /\ Len(l.ret.ReportIDs) = Len(l.event)
            /\ Len(l.reports) = Len(l.event)
            /\ \A k \in DOMAIN l.event :
                  /\ l.event[k].kind = "json"
                  /\ l.reports[k].Alert = l.event[k].alert
                  /\ l.ret.ReportIDs[k] = l.reports[k].ID

\* A batch of three records, two of them the same alert, succeeded: the
\* response holds that alert's ReportID twice and another ID between.
BatchWithRepeatedAlertSucceeded ==
    \E v \in Invocations :
        LET l == rcp[v] IN
        /\ BatchSucceeded(v)
        /\ Len(l.event) = 3
        /\ l.event[1] = l.event[3] /\ l.event[1] # l.event[2]
        /\ l.ret.ReportIDs[1] = l.ret.ReportIDs[3]
        /\ l.ret.ReportIDs[1] # l.ret.ReportIDs[2]

\* the event of invocation v holds a record that is not the JSON of an alert
HasMalformedRecord(v) ==
    \E k \in DOMAIN rcp[v].event : rcp[v].event[k].kind # "json"

\* C12: an invocation whose event holds a malformed record returns an error
\* (the decode error, unless buildConfig failed before) and an empty list,
\* and it has made no call at all: no Lookup, no Create, no workflow start
\* and no publish, also for the well-formed records before the malformed one.
MalformedRecordAbortsBatch ==
    \A v \in Invocations :
        LET l == rcp[v] IN
        HasMalformedRecord(v) =>
            /\ l.pc = "done"
            /\ l.ret.err \in {"Invalid json format in KinesisRecord", "config"}
            /\ l.ret.ReportIDs = << >>
            /\ l.alerts = << >> /\ l.reports = << >>
            /\ effects[v] = << >>

\* A batch of a well-formed record followed by a malformed one was aborted
\* with the decode error, and the alert map has no entry for the first.
BatchWithMalformedRecordAborted ==
    \E v \in Invocations :
        LET l == rcp[v] IN
        /\ Len(l.event) = 2
        /\ l.event[1].kind = "json" /\ l.event[2].kind # "json"
        /\ l.ret.err = "Invalid json format in KinesisRecord"
        /\ AlertID(l.event[1].alert.Key, l.event[1].alert.Rule) \notin DOMAIN alertMap

\* the reports alertToReport constructed, over all invocations
ReportsConstructed == UNION { Range(rcp[v].reports) : v \in Invocations }

\* C13: every report that alertToReport constructs with NewReport carries
\* the resolved ID and the alert, empty Content, nil Result and the status
\* "Received".
NewReportIsReceived ==
    \A v \in Invocations : \A k \in DOMAIN rcp[v].reports :
        LET report == rcp[v].reports[k] IN
        /\ report.Alert = rcp[v].alerts[k]
        /\ AlertMapLookup(alertMap, report.Alert.Key, report.Alert.Rule) = Ptr(report.ID)
        /\ report.Content = ZeroContent
        /\ report.Result = Nil
        /\ report.Status = "Received"

\* C14: the Status of every report in the system, constructed by intake,
\* handed to the compiler or returned by it, is "Received" or "Published".
StatusReceivedOrPublished ==
    \A report \in ReportsConstructed \cup Range(request) \cup Range(compiled.report) :
        report.Status \in {"Received", "Published"}

\* the log of every invocation: a Create follows at once the successful
\* Lookup of the same alert, and a Lookup that failed is the last call of its
\* invocation, which returned the error with no report for that alert
CreateFollowsOwnLookup ==
    \A v \in Invocations : \A n \in DOMAIN effects[v] :
        LET e == effects[v][n] IN
        /\ e.op = "Create" =>
              n > 1 /\ effects[v][n - 1] = [op |-> "Lookup", i |-> e.i, ok |-> TRUE]
        /\ (e.op = "Lookup" /\ ~e.ok) =>
              /\ n = Len(effects[v])
              /\ rcp[v].pc = "done" /\ rcp[v].handler.err = "lookup"
              /\ Len(rcp[v].reports) = e.i - 1

\* the step in which invocation v gets the answer of its Lookup: the map is
\* left as it is; v goes on to Create only if the pair had no entry; if it
\* had one, v builds the report with that ReportID, unless the read failed
LookupDecides(v) ==
    (rcp[v].pc = "lookup" /\ rcp'[v] # rcp[v]) =>
        LET l == rcp[v]
            alert == l.alerts[l.i]
            found == AlertMapLookup(alertMap, alert.Key, alert.Rule)
        IN  /\ alertMap' = alertMap
            /\ rcp'[v].pc = "create" => found = Nil
            /\ found # Nil =>
                  \/ /\ rcp'[v].pc = "dispatch"
                     /\ rcp'[v].report = Ptr(NewReport(found[1], alert))
                  \/ /\ rcp'[v].pc = "done"
                     /\ rcp'[v].handler.err = "lookup"
                     /\ rcp'[v].reports = l.reports

\* the map changes only in a step of an invocation that is in Create
MapWrittenByCreate ==
    alertMap' # alertMap =>
        \E v \in Invocations : rcp[v].pc = "create" /\ rcp'[v] # rcp[v]

\* C17: alertToReport calls Create only after its own Lookup of the pair
\* returned absent; a Lookup that finds an entry leaves the map unchanged and
\* the entry's ReportID is used; after a Lookup that failed there is no
\* Create and no report for the alert.
CreateOnlyAfterAbsentLookup ==
    /\ []CreateFollowsOwnLookup
    /\ [][(\A v \in Invocations : LookupDecides(v)) /\ MapWrittenByCreate]_vars

\* An invocation found in Lookup the entry another invocation had created,
\* and built its report without a Create of its own.
LookupFoundEntryOfOther ==
    \E v, w \in Invocations : \E a \in Alerts :
        /\ v # w
        /\ \E n \in CallsFor(w, "Create", a) : effects[w][n].ok
        /\ CallsFor(v, "Create", a) = {}
        /\ \E k \in DOMAIN rcp[v].reports : SamePair(rcp[v].reports[k].Alert, a)

\* the calls that resolve the ReportID of an alert
CorrelateOps == {"Lookup", "Create", "Reread"}

\* the n-th call of invocation v comes in Handler's order: the correlation
\* of the first alert opens the log, and every other call follows a call
\* that succeeded: a correlation follows the publish of the alert before
\* (or an earlier correlation call of the same alert), the dispatch start
\* follows the correlation, the review start the dispatch start, and the
\* publish the review start, all for the same alert
InHandlerOrder(v, n) ==
    LET e == effects[v][n] IN
    IF n = 1 THEN e.op = "Lookup" /\ e.i = 1
    ELSE LET d == effects[v][n - 1] IN
         /\ d.ok \/ (d.op = "Create" /\ e.op = "Reread")
         /\ CASE e.op = "Lookup"   -> d.op = "Publish" /\ e.i = d.i + 1
              [] e.op = "Create"   -> d.op = "Lookup" /\ e.i = d.i
              [] e.op = "Reread"   -> d.op = "Create" /\ ~d.ok /\ e.i = d.i
              [] e.op = "Dispatch" -> d.op \in CorrelateOps /\ e.i = d.i
              [] e.op = "Review"   -> d.op = "Dispatch" /\ e.i = d.i
              [] e.op = "Publish"  -> d.op = "Review" /\ e.i = d.i

\* call op was made for the k-th alert of invocation v and succeeded
Succeeded(v, op, k) ==
    \E n \in DOMAIN effects[v] : effects[v][n] = [op |-> op, i |-> k, ok |-> TRUE]

\* C18: Handler's calls come, alert by alert, in the order correlate, start
\* dispatch, start review, publish, each only after the one before
\* succeeded; the list Handler builds and returns, full or partial, holds
\* exactly the IDs of the alerts whose publish succeeded, in order.
EffectsInOrderBeforeAppend ==
    \A v \in Invocations :
        LET l == rcp[v] IN
        /\ \A n \in DOMAIN effects[v] : InHandlerOrder(v, n)
        /\ \A k \in DOMAIN l.resp :
              /\ l.resp[k] = l.reports[k].ID
              /\ Succeeded(v, "Dispatch", k)
              /\ Succeeded(v, "Review", k)
              /\ Succeeded(v, "Publish", k)
        /\ \A k \in DOMAIN l.alerts : Succeeded(v, "Publish", k) => k \in DOMAIN l.resp
        /\ l.pc = "done" => l.handler.ids = l.resp

\* Handler returned a partial list: the first alert went through, the start
\* of the review workflow failed for the second, which was never published.
PartialListAfterFailedStart ==
    \E v \in Invocations :
        LET l == rcp[v] IN
        /\ l.pc = "done"
        /\ Len(l.handler.ids) = 1
        /\ effects[v][Len(effects[v])] = [op |-> "Review", i |-> 2, ok |-> FALSE]

(***************************************************************************)
(* Properties of the compiler (specification CompileSpec).                 *)
(***************************************************************************)
\* the invocation returned a report
CompiledOk == cpc = "done" /\ compiled.kind = "ok"

\* the Content of the returned report
CompiledContent == compiled.report[1].Content

\* the pages the invocation fetched: the table is at rest once it ran
Fetched == PagesOf(QueryAll(reportData, request[1].ID))

SameHosts(c, d) == c.RemoteHosts = d.RemoteHosts /\ c.LocalHosts = d.LocalHosts

RemoteFields ==
    {"IPAddr", "Country", "ASOwner", "RelatedMalware", "RelatedDomains", "RelatedURLs"}

LocalFields == {"UserName", "OS", "IPAddr", "Country", "ServiceUsage"}

Perms(n) == { f \in [1..n -> 1..n] : \A i, j \in 1..n : i # j => f[i] # f[j] }

Permute(seq, f) == [i \in DOMAIN seq |-> seq[f[i]]]

\* how often each value occurs in a list
Occurrences(seq) ==
    [e \in Range(seq) |-> Cardinality({ i \in DOMAIN seq : seq[i] = e })]

\* the same keys, and under each key the same ID and, field by field, the
\* same values the same number of times
SameEntriesUpToOrder(m, n, fields) ==
    /\ DOMAIN m = DOMAIN n
    /\ \A k \in DOMAIN m :
          /\ m[k].ID = n[k].ID
          /\ \A f \in fields : Occurrences(m[k][f]) = Occurrences(n[k][f])

SameHostsUpToOrder(c, d) ==
    /\ SameEntriesUpToOrder(c.RemoteHosts, d.RemoteHosts, RemoteFields)
    /\ SameEntriesUpToOrder(c.LocalHosts, d.LocalHosts, LocalFields)

\* C3 as stated: every permutation of the fetched pages compiles to the same
\* RemoteHosts and LocalHosts, every list of every entry included.
CompilePermutationInvariant ==
    CompiledOk =>
        \A f \in Perms(Len(Fetched)) :
            LET r == Compile(Permute(Fetched, f))
            IN  ~r.panic /\ SameHosts(r.content, CompiledContent)

\* C3 as amended: every permutation of the fetched pages ends the same way
\* (a report, or the crash on a nil page) and compiles to the same keys, the
\* same IDs and, in every list field, the same values with the same
\* multiplicities; the order of the values within a list follows the pages.
CompilePermutationInvariantUpToOrder ==
    (cpc = "done" /\ compiled.kind \in {"ok", "panic"}) =>
        \A f \in Perms(Len(Fetched)) :
            LET r == Compile(Permute(Fetched, f))
            IN  /\ r.panic <=> (compiled.kind = "panic")
                /\ ~r.panic => SameHostsUpToOrder(r.content, CompiledContent)

\* A report was compiled from pages of which some other order compiles to
\* different lists.
CompiledWhereOrderShows ==
    /\ CompiledOk
    /\ \E f \in Perms(Len(Fetched)) :
          ~SameHosts(Compile(Permute(Fetched, f)).content, CompiledContent)

\* the entries of a map as a list of host entries
MapValues(m) == LET keys == SetToSeq(DOMAIN m) IN [i \in DOMAIN keys |-> m[keys[i]]]

\* merging the compiled content d into the compiled content c by the Merge
\* operations of the loop: the entries of d are merged like those of a page
MergeContents(c, d) ==
    MergePage(c, [RemoteHost |-> MapValues(d.RemoteHosts),
                  LocalHost  |-> MapValues(d.LocalHosts)])

\* what a compilation yields: the crash, or the two mappings
Outcome(r) ==
    IF r.panic
    THEN [panic |-> TRUE, RemoteHosts |-> EmptyMap, LocalHosts |-> EmptyMap]
    ELSE [panic |-> FALSE, RemoteHosts |-> r.content.RemoteHosts,
          LocalHosts |-> r.content.LocalHosts]

MergeOutcomes(a, b) ==
    IF a.panic \/ b.panic
    THEN [panic |-> TRUE, RemoteHosts |-> EmptyMap, LocalHosts |-> EmptyMap]
    ELSE Outcome([panic |-> FALSE, content |-> MergeContents(a, b)])

\* the outcomes of compiling pages in every grouping: the pages compiled at
\* once, or a prefix and the remainder each in some grouping and then merged
RECURSIVE Groupings(_)
Groupings(pages) ==
    { Outcome(Compile(pages)) } \cup
    UNION { { MergeOutcomes(a, b) :
                a \in Groupings(SubSeq(pages, 1, k)),
                b \in Groupings(SubSeq(pages, k + 1, Len(pages))) } :
            k \in 1..(Len(pages) - 1) }

\* C4: merging the compiled results of the fetched pages two at a time, in
\* any grouping, yields what the invocation compiled from all of them.
CompileIncremental ==
    (cpc = "done" /\ compiled.kind \in {"ok", "panic"}) =>
        Groupings(Fetched) =
            { IF compiled.kind = "panic"
              THEN [panic |-> TRUE, RemoteHosts |-> EmptyMap, LocalHosts |-> EmptyMap]
              ELSE [panic |-> FALSE, RemoteHosts |-> CompiledContent.RemoteHosts,
                    LocalHosts |-> CompiledContent.LocalHosts] }

\* A report was compiled from three pages that all observe one local host.
CompiledThreePagesOneHost ==
    /\ CompiledOk
    /\ Len(Fetched) = 3
    /\ \E id \in {"pc-1", "pc-2"} :
          \A i \in 1..3 : \E j \in DOMAIN Fetched[i][1].LocalHost :
              Fetched[i][1].LocalHost[j].ID = id

\* the pages of a fetched list that are not nil
ValidPages(pages) == SelectSeq(pages, LAMBDA p : p # Nil)

\* C5: a fragment whose payload does not deserialise, or is empty, is skipped:
\* when nothing else fails the invocation returns the aggregate of exactly
\* the remaining pages.
CorruptFragmentSkipped ==
    (cpc = "done" /\ fault = "") =>
        /\ compiled.kind = "ok"
        /\ SameHosts(CompiledContent, Compile(ValidPages(Fetched)).content)

\* the host entries of the pages, in page order then list order
RECURSIVE RemoteEntries(_)
RemoteEntries(pages) ==
    IF pages = << >> THEN << >>
    ELSE Head(pages)[1].RemoteHost \o RemoteEntries(Tail(pages))

RECURSIVE LocalEntries(_)
LocalEntries(pages) ==
    IF pages = << >> THEN << >>
    ELSE Head(pages)[1].LocalHost \o LocalEntries(Tail(pages))

\* field f of the entries with ID id, one list after the other
RECURSIVE FieldOf(_, _, _)
FieldOf(entries, id, f) ==
    IF entries = << >> THEN << >>
    ELSE (IF Head(entries).ID = id THEN Head(entries)[f] ELSE << >>)
            \o FieldOf(Tail(entries), id, f)

\* a mapping holds one entry per ID of the entries, keyed by it, and each
\* list field of the entry is that field of all entries with the ID
Aggregates(m, entries, fields) ==
    /\ DOMAIN m = { entries[i].ID : i \in DOMAIN entries }
    /\ \A k \in DOMAIN m :
          /\ m[k].ID = k
          /\ \A f \in fields : m[k][f] = FieldOf(entries, k, f)

\* C6: in a compiled report every remote-host id of the pages is exactly one
\* key of RemoteHosts, the entry under k has ID k, and each list field holds
\* that field's values of all page entries with the id, repeats included.
RemoteHostsAggregate ==
    CompiledOk =>
        Aggregates(CompiledContent.RemoteHosts, RemoteEntries(Fetched), RemoteFields)

\* A report was compiled with two remote hosts of which one was observed
\* twice with the same address.
CompiledRepeatedObservation ==
    /\ CompiledOk
    /\ Cardinality(DOMAIN CompiledContent.RemoteHosts) = 2
    /\ \E k \in DOMAIN CompiledContent.RemoteHosts :
          LET ips == CompiledContent.RemoteHosts[k].IPAddr
          IN  \E i, j \in DOMAIN ips : i # j /\ ips[i] = ips[j]

\* C7: local hosts are aggregated like remote hosts: each list field of an
\* entry of LocalHosts is that same field of all page entries with the id.
LocalHostsAggregate ==
    CompiledOk =>
        Aggregates(CompiledContent.LocalHosts, LocalEntries(Fetched), LocalFields)

DistinctIDs(entries) ==
    \A i, j \in DOMAIN entries : i # j => entries[i].ID # entries[j].ID

\* the mapping that holds each entry of the list under its ID
Keyed(entries) ==
    [k \in { entries[i].ID : i \in DOMAIN entries } |->
        entries[CHOOSE i \in DOMAIN entries : entries[i].ID = k]]

\* C8: a single page whose host entries have distinct ids compiles to
\* mappings that hold exactly the page's hosts, entry for entry.
SinglePageReflected ==
    (/\ CompiledOk
     /\ Len(Fetched) = 1
     /\ DistinctIDs(Fetched[1][1].RemoteHost)
     /\ DistinctIDs(Fetched[1][1].LocalHost)) =>
        /\ CompiledContent.RemoteHosts = Keyed(Fetched[1][1].RemoteHost)
        /\ CompiledContent.LocalHosts = Keyed(Fetched[1][1].LocalHost)

\* the pages that carry at least one host entry
PagesWithHosts(pages) == SelectSeq(pages, LAMBDA p : HostCount(p[1]) > 0)

\* C9: a report with no fragment in the table compiles (when neither
\* buildParameters nor the query fails) without error to two empty mappings,
\* and a page without hosts adds nothing to a compilation.
EmptyCompilation ==
    /\ (cpc = "done" /\ fault = "" /\ QueryAll(reportData, request[1].ID) = << >>) =>
          /\ compiled.kind = "ok"
          /\ CompiledContent.RemoteHosts = EmptyMap
          /\ CompiledContent.LocalHosts = EmptyMap
    /\ CompiledOk =>
          SameHosts(CompiledContent, Compile(PagesWithHosts(Fetched)).content)

\* A report that arrived with Content was compiled while the table held
\* fragments of another report only.
CompiledWithoutFragments ==
    /\ cpc = "done" /\ fault = ""
    /\ reportData # << >>
    /\ QueryAll(reportData, request[1].ID) = << >>
    /\ request[1].Content.RemoteHosts # EmptyMap

\* the local `pages` of the invocation, as FetchReportPages returned them
FetchedOk == [err |-> FALSE, pages |-> Fetched]

\* C19: the mappings of a compiled report are those compiled from the
\* fetched pages alone, whatever Content the report came with, and
\* compiling the returned report again over the same pages returns it
\* unchanged.
CompileIgnoresIncomingContent ==
    CompiledOk =>
        /\ SameHosts(CompiledContent, Compile(Fetched).content)
        /\ \A report \in IncomingReports :
              SameHosts(CompileReport(report, FALSE, FetchedOk).report[1].Content,
                        CompiledContent)
        /\ CompileReport(compiled.report[1], FALSE, FetchedOk) = compiled

\* A report that came with hosts from an earlier compilation was compiled
\* from fragments with hosts, and none of its earlier hosts is left.
RecompiledFromFragments ==
    /\ CompiledOk
    /\ request[1].Content.RemoteHosts # EmptyMap
    /\ CompiledContent.RemoteHosts # EmptyMap
    /\ CompiledContent.LocalHosts # EmptyMap
    /\ DOMAIN request[1].Content.RemoteHosts \cap DOMAIN CompiledContent.RemoteHosts = {}
    /\ DOMAIN request[1].Content.LocalHosts \cap DOMAIN CompiledContent.LocalHosts = {}

\* a returned report differs from the incoming one in the two mappings only,
\* and a failed fetch returns no report
CompiledFrame ==
    /\ CompiledOk =>
          LET in == request[1]
              out == compiled.report[1]
          IN  /\ out.ID = in.ID
              /\ out.Alert = in.Alert
              /\ out.Result = in.Result
              /\ out.Status = in.Status
              /\ out.Content.SubjectUsers = in.Content.SubjectUsers
              /\ out = [in EXCEPT !.Content.RemoteHosts = out.Content.RemoteHosts,
                                  !.Content.LocalHosts = out.Content.LocalHosts]
    /\ (cpc = "done" /\ fault = "query") =>
          compiled.kind = "error" /\ compiled.report = Nil

\* a step of the compile invocation leaves the table as it is
CompileKeepsFragments == cpc' # cpc => reportData' = reportData

\* C20: the returned report has the ID, Alert, Result, Status and
\* Content.SubjectUsers of the incoming report; the invocation changes no
\* stored fragment; when the fetch fails no report is returned.
CompileChangesHostsOnly == []CompiledFrame /\ [][CompileKeepsFragments]_vars

\* A report with a Result, the status Published and a subject user was
\* compiled from fragments with hosts.
CompiledPublishedReport ==
    /\ CompiledOk
    /\ request[1].Result # Nil
    /\ request[1].Status = "Published"
    /\ request[1].Content.SubjectUsers # EmptyMap
    /\ CompiledContent.RemoteHosts # EmptyMap
    /\ reportData # << >>

(***************************************************************************)
(* Properties of the fragment store (specification StoreSpec).             *)
(***************************************************************************)
\* the table holds, for every report, as many fragments as Submit succeeded
StoredEqualsSubmitted ==
    \A id \in {CompiledID, OtherID} : Len(QueryAll(reportData, id)) = submits[id]

\* every stored fragment is still stored, unchanged, after a step
FragmentsKept == \A x \in Range(reportData) : x \in Range(reportData')

\* C15: every Submit that succeeds writes a record of its own: no step
\* overwrites or changes a stored fragment, and a report has as many stored
\* fragments as Submit succeeded for it, also when Submit is called more
\* than once on one ReportComponent.
SubmitWritesNewRecord == []StoredEqualsSubmitted /\ [][FragmentsKept]_vars

\* the compile invocation reads: its pages are those of the fragments the
\* table holds for the report in the state it reads, each one whole
ReadsFragmentsPresent ==
    (cpc = "idle" /\ cpc' = "merge") =>
        pagesFetched' = PagesOf(QueryAll(reportData, request'[1].ID))

\* a submission changes neither the pages read nor a result returned
SubmissionLeavesCompilation ==
    reportData' # reportData =>
        /\ pagesFetched' = pagesFetched
        /\ compiled' = compiled
        /\ cpc' = cpc

\* the report returned is the aggregate of exactly the pages read
CompiledFromPagesRead ==
    CompiledOk =>
        /\ SameHosts(CompiledContent, Compile(pagesFetched).content)
        /\ ~Compile(pagesFetched).panic

\* C16: a compilation that runs while fragments are submitted returns the
\* aggregate of exactly the fragments the table held when it read, each
\* whole; submissions after the read change neither the pages it holds nor
\* the result.
CompilationReflectsRead ==
    /\ []CompiledFromPagesRead
    /\ [][ReadsFragmentsPresent /\ SubmissionLeavesCompilation]_vars

\* A report was compiled from one fragment while the table, by the time
\* the report is returned, holds two more fragments of that report.
CompiledWhileSubmitting ==
    /\ CompiledOk
    /\ Len(pagesFetched) = 1
    /\ HostCount(pagesFetched[1][1]) = 1
    /\ Len(QueryAll(reportData, request[1].ID)) = 3

====
